---- MODULE Spec2Model ----
(***************************************************************************)
(* Verification model of the StockTradebyZ ingestion engine:               *)
(*   - TushareRateLimiter (utils/tushare_rate_limiter.py)                   *)
(*   - MissingKlineFinder (utils/missing_kline.py)                          *)
(*   - Repository / StockDataFacade upserts (database/)                     *)
(*   - KlineIngestor and fetch_one_to_mysql workers and their pools         *)
(*   - the thread pool of a driver on a list of codes                       *)
(*   - the provider clients TushareAPI.get_kline and _get_kline_tushare     *)
(* Dates are day numbers 1..MaxDate; 0 stands for NULL / None.              *)
(***************************************************************************)
EXTENDS Integers, Sequences, FiniteSets, TLC

\* ------------------------------------------------------------------------
\* Bounds of the model
\* ------------------------------------------------------------------------
NThreads == 3
DefaultMaxCalls == 200
DefaultTimeWindow == 60
MaxCallsBound == 2
MaxWindow == 3
MaxTime == 7
\* TushareRateLimiter(max_calls=2, time_window=10), observed for 12 seconds
ExampleMaxCalls == 2
ExampleTimeWindow == 10
ExampleTime == 12

Threads == 1..NThreads

VARIABLES
    \* ---- TushareRateLimiter ----
    max_calls,      \* self.max_calls
    time_window,    \* self.time_window
    calls,          \* self.calls, the deque of recorded timestamps
    lockHolder,     \* the threads inside `with self.lock`: empty or one thread
    clock,          \* time.time()
    tpc,            \* per thread: "idle" | "sleeping"
    wakeAt,         \* per thread: earliest time time.sleep may return
    slept,          \* per thread: sleeps made by the call in progress / last call
    issued,         \* history: every timestamp ever recorded, in order
    \* ---- MissingKlineFinder applied to drawn inputs ----
    gExpected,      \* expected = get_expected_dates(start, end)
    gExisting,      \* existing = get_existing_dates(code, start, end)
    gSpan,          \* max_span_days passed to missing_ranges
    gMissing,       \* list returned by find_missing_dates
    gRanges,        \* list returned by missing_ranges
    gDone,          \* the finder has run on the drawn inputs
    \* ---- the store ----
    stock_data,     \* table stock_data: set of rows [code, date, val]
    sLast,          \* bulk_upsert calls on drawn rows: [rows, before, oks, bs]
    last_update_date, \* column stocks.last_update_date per code (0: NULL)
    \* ---- one run of a driver over the securities ----
    driver,         \* entry point of the run
    mode,           \* per code: how the provider and the database behave
    run,            \* the coordinator: "init" | "running" | "returned" | "raised"
    refreshed,      \* refresh_last_update_dates has been called
    limBusy,        \* code of the task inside the shared limiter's lock, or NoCode
    task,           \* per code: the state of its task
    consumers,      \* the consumer tasks of AsyncKlineIngestor.run:
                    \* "none" | "pending" | "waiting" | "cancelled"
    \* ---- the thread pool of a driver, on a drawn list of codes ----
    pool_codes,     \* codes: the list the driver submits, one future per element
    futures,        \* per element: "queued" | "running" | "done"
    pool_exit,      \* the `with ThreadPoolExecutor(...)` block has been left
    \* ---- the provider clients applied to a drawn frame ----
    raw_df,         \* df: the frame ts.pro_bar returns
    client_out,     \* what was applied to it last and what that returned: [by, ok, df]
    \* ---- one MissingKlineFinder and the threads calling get_expected_dates ----
    cal_open,       \* the days the provider's trade_cal reports with is_open = 1
    finder_pro,     \* self.pro is not None
    cal_req,        \* the interval (start, end) drawn for the callers
    cal_cache,      \* self._cal_cache: key (start, end) -> set of dates
    cal_writes,     \* history: per key, the number of assignments to the cache
    cal_call,       \* per thread: its call of get_expected_dates, [pc, key, how, ret]
    cal_n,          \* the calls of get_expected_dates made so far, by all threads
    cal_stored      \* per thread: the stored dates of the security the thread works on

limVars == <<max_calls, time_window, calls, lockHolder, clock, tpc, wakeAt, slept, issued>>

gapVars == <<gExpected, gExisting, gSpan, gMissing, gRanges, gDone>>
storeVars == <<stock_data, sLast>>
runVars == <<last_update_date, driver, mode, run, refreshed, limBusy, task, consumers>>

poolVars == <<pool_codes, futures, pool_exit>>
clientVars == <<raw_df, client_out>>
calVars == <<cal_open, finder_pro, cal_req, cal_cache, cal_writes, cal_call, cal_n, cal_stored>>

vars == <<limVars, gapVars, storeVars, runVars, poolVars, clientVars, calVars>>

\* what the actions of one component leave alone
notLimVars == <<gapVars, storeVars, runVars, poolVars, clientVars, calVars>>
notGapVars == <<limVars, storeVars, runVars, poolVars, clientVars, calVars>>
notStoreVars == <<limVars, gapVars, runVars, poolVars, clientVars, calVars>>
notRunVars == <<limVars, gapVars, sLast, poolVars, clientVars, calVars>>
notPoolVars == <<limVars, gapVars, storeVars, runVars, clientVars, calVars>>
notClientVars == <<limVars, gapVars, storeVars, runVars, poolVars, calVars>>
notCalVars == <<limVars, gapVars, storeVars, runVars, poolVars, clientVars>>

\* ------------------------------------------------------------------------
\* TushareRateLimiter
\* ------------------------------------------------------------------------
RECURSIVE EvictBefore(_, _)
\* while self.calls and self.calls[0] < now - self.time_window: popleft()
EvictBefore(q, bound) ==
    IF q # <<>> /\ Head(q) < bound THEN EvictBefore(Tail(q), bound) ELSE q

RECURSIVE EvictExpired(_, _, _)
\* a second cleaning that evicts nothing
EvictExpired_KeepAll(q, now, w) == q

\* while self.calls and now - self.calls[0] >= self.time_window: popleft()
EvictExpired(q, now, w) ==
    IF q # <<>> /\ now - Head(q) >= w THEN EvictExpired(Tail(q), now, w) ELSE q

\* a limiter that does not wait at all
SleepTime_NoWait(now, oldest, w) == 0

\* a sleep that ends when the oldest call is exactly one window old
SleepTime_NoMargin(now, oldest, w) == w - (now - oldest)

\* sleep_time = self.time_window - (now - self.calls[0]) + 1
SleepTime(now, oldest, w) == w - (now - oldest) + 1

\* TushareRateLimiter.__init__
LimNew(mc, tw) ==
    /\ max_calls = mc
    /\ time_window = tw
    /\ calls = <<>>
    /\ lockHolder = {}
    /\ clock = 0
    /\ tpc = [t \in Threads |-> "idle"]
    /\ wakeAt = [t \in Threads |-> 0]
    /\ slept = [t \in Threads |-> 0]
    /\ issued = <<>>

\* wait_if_needed, from taking the lock to either recording the call
\* (window not full) or starting time.sleep with the lock still held.
LimEnter(t) ==
    /\ tpc[t] = "idle"
    /\ lockHolder = {}
    /\ LET now == clock
           q == EvictBefore(calls, now - time_window)
       IN  IF Len(q) >= max_calls
           THEN /\ calls' = q
                /\ lockHolder' = {t}
                /\ tpc' = [tpc EXCEPT ![t] = "sleeping"]
                /\ wakeAt' = [wakeAt EXCEPT ![t] = now + SleepTime(now, Head(q), time_window)]
                /\ slept' = [slept EXCEPT ![t] = 1]
                /\ UNCHANGED issued
           ELSE /\ calls' = Append(q, now)
                /\ issued' = Append(issued, now)
                /\ slept' = [slept EXCEPT ![t] = 0]
                /\ UNCHANGED <<lockHolder, tpc, wakeAt>>
    /\ UNCHANGED <<max_calls, time_window, clock>>
    /\ UNCHANGED notLimVars

\* time.sleep returns (not before sleep_time has elapsed), the deque is
\* cleaned again, the call is recorded and the lock released.
LimWake(t) ==
    /\ tpc[t] = "sleeping"
    /\ lockHolder = {t}
    /\ clock >= wakeAt[t]
    /\ LET now == clock
           q == EvictExpired(calls, now, time_window)
       IN  /\ calls' = Append(q, now)
           /\ issued' = Append(issued, now)
    /\ lockHolder' = {}
    /\ tpc' = [tpc EXCEPT ![t] = "idle"]
    /\ UNCHANGED <<max_calls, time_window, clock, wakeAt, slept>>
    /\ UNCHANGED notLimVars

\* the constructor arguments max_calls, time_window of the limiters observed
LimConfigs ==
    ((1..MaxCallsBound) \X (1..MaxWindow)) \cup {<<ExampleMaxCalls, ExampleTimeWindow>>}

\* how long a limiter is observed: long enough for a full window to pass
Horizon == IF time_window > MaxWindow THEN ExampleTime ELSE MaxTime

\* the wall clock advances
LimTick ==
    /\ clock < Horizon
    /\ clock' = clock + 1
    /\ UNCHANGED <<max_calls, time_window, calls, lockHolder, tpc, wakeAt, slept, issued>>
    /\ UNCHANGED notLimVars

LimNext ==
    \/ \E t \in Threads : LimEnter(t)
    \/ \E t \in Threads : LimWake(t)
    \/ LimTick

\* ------------------------------------------------------------------------
\* MissingKlineFinder: find_missing_dates and missing_ranges
\* ------------------------------------------------------------------------
MaxGapDate == 6
MaxSpanTest == 2
DefaultMaxSpanDays == 365

GapDates == 1..MaxGapDate
Spans == (1..MaxSpanTest) \cup {DefaultMaxSpanDays}

RECURSIVE InsertSorted(_, _)
InsertSorted(x, q) ==
    IF q = <<>> THEN <<x>>
    ELSE IF x < Head(q) THEN <<x>> \o q
    ELSE <<Head(q)>> \o InsertSorted(x, Tail(q))

RECURSIVE SortedList(_)
\* sorted(list)
SortedList(q) == IF q = <<>> THEN <<>> ELSE InsertSorted(Head(q), SortedList(Tail(q)))

RECURSIVE SortedSet(_)
\* sorted(set): the ascending list of the members of a set
SortedSet(S) ==
    IF S = {} THEN <<>>
    ELSE LET m == CHOOSE x \in S : \A y \in S : x <= y
         IN  <<m>> \o SortedSet(S \ {m})

\* a finder that forgets the stored dates
find_missing_dates_NoDiff(expected, existing) == SortedSet(expected)

\* missing = sorted(expected - existing)
find_missing_dates(expected, existing) == SortedSet(expected \ existing)

\* a merge that ignores whether d is the day after prev
Extends_NoAdjacency(d, start, prev, max_span_days) == d - start < max_span_days

\* a merge that ignores max_span_days
Extends_NoSpanLimit(d, start, prev, max_span_days) == d - prev = 1

\* if (d - prev).days == 1 and (d - start).days < max_span_days
Extends(d, start, prev, max_span_days) == d - prev = 1 /\ d - start < max_span_days

RECURSIVE MergeRuns(_, _, _, _, _)
\* the loop `for d in dates[1:]` followed by the final ranges.append
MergeRuns(rest, start, prev, max_span_days, ranges) ==
    IF rest = <<>> THEN Append(ranges, <<start, prev>>)
    ELSE LET d == Head(rest)
         IN  IF Extends(d, start, prev, max_span_days)
             THEN MergeRuns(Tail(rest), start, d, max_span_days, ranges)
             ELSE MergeRuns(Tail(rest), d, d, max_span_days, Append(ranges, <<start, prev>>))

missing_ranges(missing_dates, max_span_days) ==
    LET dates == SortedList(missing_dates)
    IN  IF dates = <<>> THEN <<>>
        ELSE MergeRuns(Tail(dates), Head(dates), Head(dates), max_span_days, <<>>)

\* the finder's inputs: a calendar, the stored dates and max_span_days
GapInputs(expected, existing, span) ==
    /\ gExpected = expected
    /\ gExisting = existing
    /\ gSpan = span
    /\ gMissing = <<>>
    /\ gRanges = <<>>
    /\ gDone = FALSE

GapIdle == GapInputs({}, {}, DefaultMaxSpanDays)

\* find_missing_dates followed by missing_ranges, on drawn calendar and store dates
GapFind ==
    /\ ~gDone
    /\ gMissing' = find_missing_dates(gExpected, gExisting)
    /\ gRanges' = missing_ranges(find_missing_dates(gExpected, gExisting), gSpan)
    /\ gDone' = TRUE
    /\ UNCHANGED <<gExpected, gExisting, gSpan>>
    /\ UNCHANGED notGapVars

\* ------------------------------------------------------------------------
\* Repository.upsert_from_dict / bulk_upsert_from_dicts, StockDataFacade.bulk_upsert
\* ------------------------------------------------------------------------
SameKey(x, r) == x.code = r.code /\ x.date = r.date

\* an upsert that always inserts
upsert_from_dict_AlwaysInsert(table, r) == table \cup {r}

\* an upsert that replaces every stored row of the security of r
upsert_from_dict_ReplaceCode(table, r) == {x \in table : x.code # r.code} \cup {r}

\* obj = self.get(pk); add a new object if None, else setattr every value
upsert_from_dict(table, r) ==
    IF \E x \in table : SameKey(x, r)
    THEN {IF SameKey(x, r) THEN r ELSE x : x \in table}
    ELSE table \cup {r}

RECURSIVE UpsertAll(_, _)
UpsertAll(table, batch) ==
    IF batch = <<>> THEN table
    ELSE UpsertAll(upsert_from_dict(table, Head(batch)), Tail(batch))

\* two rows of one batch that are both new and share a primary key are both
\* pending (session.get does not see unflushed objects, autoflush is off):
\* the flush at commit raises
PendingConflict(table, batch) ==
    \E i, j \in DOMAIN batch :
        /\ i < j
        /\ SameKey(batch[i], batch[j])
        /\ ~ \E x \in table : SameKey(x, batch[i])

SeqTake(q, n) == SubSeq(q, 1, IF n < Len(q) THEN n ELSE Len(q))
SeqDrop(q, n) == SubSeq(q, (IF n < Len(q) THEN n ELSE Len(q)) + 1, Len(q))

RECURSIVE bulk_upsert_from_dicts(_, _, _, _)
\* for i in range(0, total, batch_size): upsert the batch and commit; on
\* SQLAlchemyError roll the batch back and raise.  failAt is the index, within
\* the remaining rows, of the row at which the database raises (0: never).
bulk_upsert_from_dicts(table, rows, batch_size, failAt) ==
    IF rows = <<>> THEN [table |-> table, ok |-> TRUE]
    ELSE LET batch == SeqTake(rows, batch_size)
         IN  IF (failAt >= 1 /\ failAt <= Len(batch)) \/ PendingConflict(table, batch)
             THEN [table |-> table, ok |-> FALSE]
             ELSE bulk_upsert_from_dicts(UpsertAll(table, batch), SeqDrop(rows, batch_size),
                                         batch_size, IF failAt = 0 THEN 0 ELSE failAt - Len(batch))

DefaultBatchSize == 1000

\* StockDataFacade.bulk_upsert(rows, batch_size)
bulk_upsert(table, rows, batch_size, failAt) ==
    IF rows = <<>> THEN [table |-> table, ok |-> TRUE]
    ELSE bulk_upsert_from_dicts(table, rows, batch_size, failAt)

MaxStoreDate == 2
MaxBatchLen == 2
StoreCodes == {"A", "B"}
StoreVals == {1, 2}
StoreRows == [code : StoreCodes, date : 1..MaxStoreDate, val : StoreVals]
StoreBatches == UNION {[1..n -> StoreRows] : n \in 0..MaxBatchLen}
BatchSizes == {1, DefaultBatchSize}

StoreKeys == StoreCodes \X (1..MaxStoreDate)
\* the tables earlier calls may have left: at most one row per primary key,
\* each with the first of the values
StoreTables ==
    {{[code |-> k[1], date |-> k[2], val |-> 1] : k \in ks} : ks \in SUBSET StoreKeys}

\* the table as it is and the rows about to be upserted, no call made yet
StoreInputs(table, rows) ==
    /\ stock_data = table
    /\ sLast = [rows |-> rows, before |-> table, oks |-> <<>>, bs |-> 0]

StoreIdle == StoreInputs({}, <<>>)

\* one call of StockDataFacade.bulk_upsert on the drawn rows (made twice)
StoreBulkUpsert ==
    /\ Len(sLast.oks) < 2
    /\ \E bs \in BatchSizes, failAt \in 0..Len(sLast.rows) :
         LET res == bulk_upsert(stock_data, sLast.rows, bs, failAt)
         IN  /\ stock_data' = res.table
             /\ sLast' = [sLast EXCEPT !.before = stock_data, !.oks = Append(@, res.ok), !.bs = bs]
    /\ UNCHANGED notStoreVars

\* ------------------------------------------------------------------------
\* One run: the provider, the workers and their coordinator
\* ------------------------------------------------------------------------
MaxDate == 4
Today == 3
PoolWorkers == 2
MaxAttempts == 3
COOLDOWN_SECS == 600

Codes == {"000001", "600403"}
NoCode == "none"
\* codes whose text contains one of BAN_PATTERNS ("403")
CodesWithBanPattern == {"600403"}
\* days the trading calendar reports as open
OpenDays == {1, 3}
\* the latest open day not after today
LastOpenDay == CHOOSE d \in OpenDays : d <= Today /\ \A e \in OpenDays : e <= Today => e <= d
RunStart == 1
RunEnd == Today
ProviderVals == {1}
Drivers == {"crawl_all_missing", "crawl_code_missing", "fetch_all_klines", "AsyncKlineIngestor.run"}
Modes == {"ok", "ban", "any"}
\* the behaviours drawn for a run: the provider and the database fail in
\* arbitrary ways for at most one security, the others are served or banned
ModeMaps == {m \in [Codes -> Modes] : Cardinality({c \in Codes : m[c] = "any"}) <= 1}

\* columns of the ORM class Stock
StockColumns == {"code", "ts_code", "name", "cnspell", "area", "industry", "market", "exchange",
                 "list_status", "list_date", "delist_date", "act_name", "act_ent_type",
                 "last_updated_date"}

\* MissingKlineFinder.get_expected_dates: the open days of the calendar in [s, e]
get_expected_dates(s, e) == {d \in s..e : d \in OpenDays}

\* SELECT date FROM stock_data WHERE code = :code AND date BETWEEN :start AND :end
get_existing_dates(table, code, s, e) ==
    {x.date : x \in {y \in table : y.code = code /\ y.date >= s /\ y.date <= e}}

\* StockFacade.get_codes_needing_update: select(Stock).where(Stock.last_update_date ...)
\* raises AttributeError when the class has no such attribute
get_codes_needing_update(marks, today) ==
    IF "last_update_date" \in StockColumns
    THEN [raised |-> FALSE, codes |-> {c \in Codes : marks[c] = 0 \/ marks[c] < today}]
    ELSE [raised |-> TRUE, codes |-> {}]

\* max(date) per code, as computed by refresh_last_update_dates
MaxStored(table, c) ==
    LET ds == {x.date : x \in {y \in table : y.code = c}}
    IN  IF ds = {} THEN 0 ELSE CHOOSE m \in ds : \A d \in ds : d <= m

RECURSIVE Reverse(_)
Reverse(q) == IF q = <<>> THEN <<>> ELSE Append(Reverse(Tail(q)), Head(q))

\* a provider frame: rows [date, val], newest first, for a set of dates
Frame(dates, v) ==
    LET asc == SortedSet(dates)
    IN  Reverse([i \in DOMAIN asc |-> [date |-> asc[i], val |-> v]])

\* the frames ts.pro_bar may return for a request of code c over [s, e]:
\* the bars asked for; or any single bar, the bars asked for together with
\* tomorrow's, or nothing
ProviderFrames(m, s, e) ==
    IF m = "ok"
    THEN {Frame(get_expected_dates(s, e), v) : v \in ProviderVals}
    ELSE {Frame(get_expected_dates(s, e), v) : v \in ProviderVals}
         \cup {Frame({d}, v) : d \in 0..MaxDate, v \in ProviderVals}
         \cup {Frame(get_expected_dates(s, e) \cup {Today + 1}, v) : v \in ProviderVals}
         \cup {<<>>}

RECURSIVE drop_duplicates(_, _)
\* a drop_duplicates that keeps every row
drop_duplicates_KeepAll(df, seen) == df

\* df.drop_duplicates(subset=date column): the first row of every date is kept
drop_duplicates(df, seen) ==
    IF df = <<>> THEN <<>>
    ELSE IF Head(df).date \in seen THEN drop_duplicates(Tail(df), seen)
    ELSE <<Head(df)>> \o drop_duplicates(Tail(df), seen \cup {Head(df).date})

RECURSIVE InsertByDate(_, _)
\* rows with a missing date go last (na_position='last')
InsertByDate(r, q) ==
    IF q = <<>> THEN <<r>>
    ELSE IF r.date # 0 /\ (Head(q).date = 0 \/ r.date < Head(q).date) THEN <<r>> \o q
    ELSE <<Head(q)>> \o InsertByDate(r, Tail(q))

RECURSIVE sort_values(_)
\* df.sort_values(date column)
sort_values(df) == IF df = <<>> THEN <<>> ELSE InsertByDate(Head(df), sort_values(Tail(df)))

\* a validation without the future-date check
DatesValid_NoFutureCheck(df) == \A i \in DOMAIN df : df[i].date # 0

\* the two checks of validate: no missing date, no date after today
DatesValid(df) ==
    /\ \A i \in DOMAIN df : df[i].date # 0
    /\ \A i \in DOMAIN df : df[i].date <= Today

\* TushareAPI.validate: raises on an empty frame, a missing date or a future date
TushareAPI_validate(df) ==
    IF df = <<>> THEN [ok |-> FALSE, df |-> <<>>]
    ELSE LET d2 == drop_duplicates(df, {})
         IN  IF DatesValid(d2) THEN [ok |-> TRUE, df |-> d2] ELSE [ok |-> FALSE, df |-> <<>>]

\* TushareAPI.get_kline after the remote call returned df
get_kline(df) ==
    LET v == TushareAPI_validate(df)
    IN  IF v.ok THEN [ok |-> TRUE, df |-> sort_values(v.df)] ELSE v

\* a validate that returns the frame whatever its dates are
validate_NoRaise(df) ==
    IF df = <<>> THEN [ok |-> TRUE, df |-> df]
    ELSE [ok |-> TRUE, df |-> sort_values(drop_duplicates(df, {}))]

\* fetch_stock_kline.validate: an empty frame passes
validate(df) ==
    IF df = <<>> THEN [ok |-> TRUE, df |-> df]
    ELSE LET d2 == sort_values(drop_duplicates(df, {}))
         IN  IF DatesValid(d2) THEN [ok |-> TRUE, df |-> d2] ELSE [ok |-> FALSE, df |-> <<>>]

\* KlineIngestor._df_to_rows and the data_list of fetch_one_to_mysql
df_to_rows(c, df) == [i \in DOMAIN df |-> [code |-> c, date |-> df[i].date, val |-> df[i].val]]

\* max(r['date'] for r in rows if r.get('date') is not None)
MaxRowDate(rows) ==
    LET ds == {rows[i].date : i \in DOMAIN rows} \ {0}
    IN  CHOOSE m \in ds : \A d \in ds : d <= m

NoCrawl == [committed |-> FALSE, marked |-> FALSE, mark0 |-> 0, fin |-> "none"]

NewTask == [pc |-> "queued", ranges |-> <<>>, ri |-> 0, attempt |-> 0, rows |-> <<>>,
            crawl |-> NoCrawl, giveups |-> {}, attempted |-> <<>>, outcome |-> "none",
            errs |-> <<>>, df |-> <<>>, waited |-> "none", remote |-> {}, sleeps |-> 0]

\* the limiter whose wait_if_needed the workers of the run call: the one
\* TushareAPI.__init__ creates for the KlineIngestor's client, or the global
\* of fetch_stock_kline
RunLimiter(d) ==
    IF d = "fetch_all_klines" THEN "fetch_stock_kline.tushare_limiter"
    ELSE "TushareAPI.tushare_limiter"

\* a remote call of the provider's api is made: it is recorded with the
\* limiter whose wait_if_needed returned before it ("none": no wait at all)
Called(t, api) ==
    [t EXCEPT !.remote = @ \cup {[api |-> api, limiter |-> t.waited]}, !.waited = "none"]

\* key in self._cal_cache: an earlier get_expected_dates of the run's finder
\* has fetched and cached the calendar of the run's interval
CalCached(tk) == \E c \in Codes : \E r \in tk[c].remote : r.api = "trade_cal"

\* get_expected_dates inside find_missing_dates: on a cache miss the finder
\* calls self.pro.trade_cal
WithCalendar(tk, t) == IF CalCached(tk) THEN t ELSE Called(t, "trade_cal")

IsIngest == driver \in {"crawl_all_missing", "crawl_code_missing", "AsyncKlineIngestor.run"}

\* the drivers that select their codes with get_codes_needing_update:
\* crawl_all_missing and the _producer of AsyncKlineIngestor.run
SelectsCodes == driver \in {"crawl_all_missing", "AsyncKlineIngestor.run"}
IsFetch == driver = "fetch_all_klines"

Running == {c \in Codes : task[c].pc \notin {"queued", "done"}}

\* the state before a run of driver d, with the rows left by earlier runs
RunNew(d, m) ==
    /\ driver = d
    /\ mode = m
    /\ last_update_date = [c \in Codes |-> 0]
    /\ run = "init"
    /\ refreshed = FALSE
    /\ limBusy = NoCode
    /\ task = [c \in Codes |-> NewTask]
    /\ consumers = "none"

RunIdle == RunNew("crawl_code_missing", [c \in Codes |-> "ok"])

\* the rows an earlier run left in the store: the latest bar of the codes in stored
StoredBefore(stored) == {[code |-> c, date |-> LastOpenDay, val |-> 1] : c \in stored}

\* StockFacade.refresh_last_update_dates: one UPDATE ... JOIN statement
Refresh ==
    /\ run = "init"
    /\ ~refreshed
    /\ refreshed' = TRUE
    /\ last_update_date' = [c \in Codes |->
           IF MaxStored(stock_data, c) # 0 THEN MaxStored(stock_data, c) ELSE last_update_date[c]]
    /\ UNCHANGED <<stock_data, driver, mode, consumers, run, limBusy, task>>
    /\ UNCHANGED notRunVars

\* AsyncKlineIngestor.run creates its consumer tasks and awaits _producer:
\* when _producer raises, run raises with the consumers still pending (they
\* have not run yet and run does not cancel them); when it enqueues nothing,
\* q.join() returns at once and run cancels the consumers, which wait on the
\* empty queue; else the consumers wait for codes and crawl them
ConsumersAfterProducer ==
    IF driver # "AsyncKlineIngestor.run" THEN consumers
    ELSE LET sel == get_codes_needing_update(last_update_date, Today)
         IN  IF sel.raised THEN "pending"
             ELSE IF sel.codes = {} THEN "cancelled" ELSE "waiting"

\* the coordinator selects the codes and submits one task per code
\* (AsyncKlineIngestor.run: awaits _producer, which enqueues the codes)
Dispatch ==
    /\ run = "init"
    /\ IF SelectsCodes
       THEN LET sel == get_codes_needing_update(last_update_date, Today)
            IN  IF sel.raised THEN run' = "raised" /\ UNCHANGED task
                ELSE IF sel.codes = {}
                THEN /\ run' = "returned"
                     /\ task' = [c \in Codes |-> [task[c] EXCEPT !.pc = "done", !.outcome = "skipped"]]
                ELSE /\ run' = "running"
                     /\ task' = [c \in Codes |->
                            IF c \in sel.codes THEN task[c]
                            ELSE [task[c] EXCEPT !.pc = "done", !.outcome = "skipped"]]
       ELSE run' = "running" /\ UNCHANGED task
    /\ consumers' = ConsumersAfterProducer
    /\ UNCHANGED <<stock_data, last_update_date, driver, mode, refreshed, limBusy>>
    /\ UNCHANGED notRunVars

\* a pool thread picks up the task of code c
TaskStart(c) ==
    /\ run = "running"
    /\ task[c].pc = "queued"
    /\ Cardinality(Running) < PoolWorkers
    /\ task' = [task EXCEPT ![c].pc = "start"]
    /\ UNCHANGED <<stock_data, last_update_date, driver, mode, consumers, run, refreshed, limBusy>>
    /\ UNCHANGED notRunVars

\* crawl_code_missing: ranges = missing_ranges(find_missing_dates(code, start, end))
IngestStart(c) ==
    /\ IsIngest
    /\ task[c].pc = "start"
    /\ LET rs == missing_ranges(
                    find_missing_dates(get_expected_dates(RunStart, RunEnd),
                                       get_existing_dates(stock_data, c, RunStart, RunEnd)),
                    DefaultMaxSpanDays)
       IN  task' = [task EXCEPT ![c] =
              IF rs = <<>>
              THEN [WithCalendar(task, @) EXCEPT !.pc = "done", !.outcome = "returned"]
              ELSE [WithCalendar(task, @) EXCEPT !.pc = "wait", !.ranges = rs, !.ri = 1, !.attempt = 1,
                             !.crawl = [NoCrawl EXCEPT !.mark0 = last_update_date[c]]]]
    /\ UNCHANGED <<stock_data, last_update_date, driver, mode, consumers, run, refreshed, limBusy>>
    /\ UNCHANGED notRunVars

\* the database query of get_existing_dates raises: crawl_code_missing raises
IngestStartFails(c) ==
    /\ IsIngest
    /\ task[c].pc = "start"
    /\ mode[c] = "any"
    /\ task' = [task EXCEPT ![c] = [WithCalendar(task, @) EXCEPT !.pc = "done", !.outcome = "raised"]]
    /\ UNCHANGED <<stock_data, last_update_date, driver, mode, consumers, run, refreshed, limBusy>>
    /\ UNCHANGED notRunVars

\* fetch_one_to_mysql(code, start, end, stock_core): for attempt in range(1, 4)
FetchStart(c) ==
    /\ IsFetch
    /\ task[c].pc = "start"
    /\ task' = [task EXCEPT ![c].pc = "wait", ![c].ranges = << <<RunStart, RunEnd>> >>,
                            ![c].ri = 1, ![c].attempt = 1,
                            ![c].crawl = [NoCrawl EXCEPT !.mark0 = last_update_date[c]]]
    /\ UNCHANGED <<stock_data, last_update_date, driver, mode, consumers, run, refreshed, limBusy>>
    /\ UNCHANGED notRunVars

\* wait_if_needed of the shared limiter returns at once
LimiterPass(c) ==
    /\ task[c].pc = "wait"
    /\ limBusy = NoCode
    /\ task' = [task EXCEPT ![c].pc = "call", ![c].waited = RunLimiter(driver)]
    /\ UNCHANGED <<stock_data, last_update_date, driver, mode, consumers, run, refreshed, limBusy>>
    /\ UNCHANGED notRunVars

\* wait_if_needed finds the window full and sleeps inside the lock
LimiterSleep(c) ==
    /\ task[c].pc = "wait"
    /\ limBusy = NoCode
    /\ limBusy' = c
    /\ task' = [task EXCEPT ![c].pc = "limsleep"]
    /\ UNCHANGED <<stock_data, last_update_date, driver, mode, consumers, run, refreshed>>
    /\ UNCHANGED notRunVars

\* the limiter's sleep ends, the call is recorded and the lock released
LimiterWake(c) ==
    /\ task[c].pc = "limsleep"
    /\ limBusy = c
    /\ limBusy' = NoCode
    /\ task' = [task EXCEPT ![c].pc = "call", ![c].waited = RunLimiter(driver)]
    /\ UNCHANGED <<stock_data, last_update_date, driver, mode, consumers, run, refreshed>>
    /\ UNCHANGED notRunVars

CurRange(t) == t.ranges[t.ri]

\* TushareAPI.get_kline has no except clause: what ts.pro_bar raises reaches
\* the caller as it is, whether or not its text matches a ban pattern
TushareAPIGetKlineRaises(ban) == "original"

\* _get_kline_tushare: except Exception as e:
\*     if _looks_like_ip_ban(e): raise RateLimitError(str(e)) from e
\*     raise
GetKlineTushareRaises(ban) == IF ban THEN "RateLimitError" ELSE "original"

\* the exception the worker's except clause receives for a failure of kind
\* "remote" (ts.pro_bar raised), "empty" / "invalid" (validate raised),
\* "check" (check_stock_info_exist raised) or "persist" (bulk_upsert raised)
RaisedAs(kind, ban) ==
    IF kind = "remote"
    THEN IF IsIngest THEN TushareAPIGetKlineRaises(ban) ELSE GetKlineTushareRaises(ban)
    ELSE IF kind = "persist" THEN "SQLAlchemyError" ELSE "ValueError"

\* jitter = random.uniform(0.9, 1.2), in thousandths
JitterPermille == 900..1200

\* _cool_sleep: sleep_s = max(1, int(base_seconds * jitter))
cool_sleep(base_seconds, jitter) ==
    LET sleep_s == (base_seconds * jitter) \div 1000
    IN  IF sleep_s < 1 THEN 1 ELSE sleep_s

\* an except clause whose backoff does not grow with the attempt
ErrRecord_FlatBackoff(t, kind, ban) ==
    [kind |-> kind, ban |-> ban, exc |-> RaisedAs(kind, ban), ri |-> t.ri, attempt |-> t.attempt,
     via |-> IF IsIngest THEN "none" ELSE IF ban THEN "_cool_sleep" ELSE "time.sleep",
     secs |-> IF IsIngest THEN 0 ELSE IF ban THEN COOLDOWN_SECS ELSE 15]

\* the record of one failed attempt: its kind, whether the error text matches
\* a ban pattern, the exception raised, and the sleep of the except clause
ErrRecord(t, kind, ban) ==
    [kind |-> kind, ban |-> ban, exc |-> RaisedAs(kind, ban), ri |-> t.ri, attempt |-> t.attempt,
     via |-> IF IsIngest THEN "none" ELSE IF ban THEN "_cool_sleep" ELSE "time.sleep",
     secs |-> IF IsIngest THEN 0 ELSE IF ban THEN COOLDOWN_SECS ELSE 15 * t.attempt]

\* an except clause that lets the error escape the task
OnError_Reraise(t, kind, ban) ==
    [t EXCEPT !.pc = "done", !.outcome = "raised", !.errs = Append(@, ErrRecord(t, kind, ban))]

\* an except clause that skips the sleep after the last attempt
OnError_NoSleepAtLast(t, kind, ban) ==
    IF IsIngest
    THEN [t EXCEPT !.pc = "next", !.crawl.fin = "raised", !.giveups = @ \cup {<<t.ri, t.attempt>>},
                   !.errs = Append(@, ErrRecord(t, kind, ban))]
    ELSE IF t.attempt = MaxAttempts
    THEN [t EXCEPT !.pc = "done", !.outcome = "gaveup", !.giveups = @ \cup {<<t.ri, t.attempt>>},
                   !.errs = Append(@, ErrRecord(t, kind, ban))]
    ELSE [t EXCEPT !.pc = IF ban THEN "cooldown" ELSE "backoff",
                   !.errs = Append(@, ErrRecord(t, kind, ban))]

\* what the worker does with an exception raised by an attempt:
\* crawl_code_missing logs it and goes on to the next range;
\* fetch_one_to_mysql sleeps (_cool_sleep on a ban pattern, else 15 * attempt)
OnError(t, kind, ban) ==
    IF IsIngest
    THEN [t EXCEPT !.pc = "next", !.crawl.fin = "raised", !.giveups = @ \cup {<<t.ri, t.attempt>>},
                   !.errs = Append(@, ErrRecord(t, kind, ban))]
    ELSE [t EXCEPT !.pc = IF ban THEN "cooldown" ELSE "backoff",
                   !.errs = Append(@, ErrRecord(t, kind, ban))]

\* ts.pro_bar raises; ban tells whether the error text matches a ban pattern
CallRaises(c) ==
    /\ task[c].pc = "call"
    /\ \E ban \in BOOLEAN :
         /\ mode[c] = "any" \/ (mode[c] = "ban" /\ ban)
         /\ task' = [task EXCEPT ![c] = OnError([Called(@, "pro_bar") EXCEPT !.rows = <<>>], "remote", ban)]
    /\ UNCHANGED <<stock_data, last_update_date, driver, mode, consumers, run, refreshed, limBusy>>
    /\ UNCHANGED notRunVars

\* ts.pro_bar returns a frame to TushareAPI.get_kline (crawl_code)
IngestCallReturns(c) ==
    /\ IsIngest
    /\ task[c].pc = "call"
    /\ mode[c] # "ban"
    /\ \E df \in ProviderFrames(mode[c], CurRange(task[c])[1], CurRange(task[c])[2]) :
         LET r == get_kline(df)
         IN  task' = [task EXCEPT ![c] =
                IF r.ok THEN [Called(@, "pro_bar") EXCEPT !.pc = "upsert", !.rows = df_to_rows(c, r.df), !.df = df]
                ELSE OnError([Called(@, "pro_bar") EXCEPT !.rows = <<>>, !.df = df],
                             IF df = <<>> THEN "empty" ELSE "invalid", FALSE)]
    /\ UNCHANGED <<stock_data, last_update_date, driver, mode, consumers, run, refreshed, limBusy>>
    /\ UNCHANGED notRunVars

\* ts.pro_bar returns a frame to _get_kline_tushare (fetch_one_to_mysql)
FetchCallReturns(c) ==
    /\ IsFetch
    /\ task[c].pc = "call"
    /\ mode[c] # "ban"
    /\ \E df \in ProviderFrames(mode[c], CurRange(task[c])[1], CurRange(task[c])[2]) :
         LET new_df == sort_values(df)
             r == validate(new_df)
         IN  task' = [task EXCEPT ![c] =
                IF new_df = <<>>
                THEN [Called(@, "pro_bar") EXCEPT !.pc = "done", !.outcome = "nodata", !.rows = <<>>]
                ELSE IF r.ok
                THEN [Called(@, "pro_bar") EXCEPT !.pc = "check", !.rows = df_to_rows(c, r.df), !.df = df]
                ELSE OnError([Called(@, "pro_bar") EXCEPT !.rows = <<>>, !.df = df], "invalid", FALSE)]
    /\ UNCHANGED <<stock_data, last_update_date, driver, mode, consumers, run, refreshed, limBusy>>
    /\ UNCHANGED notRunVars

\* check_stock_info_exist finds the stock
CheckOk(c) ==
    /\ task[c].pc = "check"
    /\ task' = [task EXCEPT ![c].pc = "upsert"]
    /\ UNCHANGED <<stock_data, last_update_date, driver, mode, consumers, run, refreshed, limBusy>>
    /\ UNCHANGED notRunVars

\* check_stock_info_exist raises ValueError(f"...code:{code}")
CheckFails(c) ==
    /\ task[c].pc = "check"
    /\ mode[c] = "any"
    /\ task' = [task EXCEPT ![c] = OnError(@, "check", c \in CodesWithBanPattern)]
    /\ UNCHANGED <<stock_data, last_update_date, driver, mode, consumers, run, refreshed, limBusy>>
    /\ UNCHANGED notRunVars

\* a crawl_code that logs the failed upsert and goes on to update the mark
UpsertFails_NoRaise(c) ==
    /\ task[c].pc = "upsert"
    /\ mode[c] = "any"
    /\ IsIngest
    /\ task' = [task EXCEPT ![c].pc = "mark"]
    /\ UNCHANGED <<stock_data, last_update_date, driver, mode, consumers, run, refreshed, limBusy>>
    /\ UNCHANGED notRunVars

\* stock_core.stock_data.bulk_upsert(rows) commits
UpsertOk(c) ==
    /\ task[c].pc = "upsert"
    /\ LET res == bulk_upsert(stock_data, task[c].rows, DefaultBatchSize, 0)
       IN  /\ res.ok
           /\ stock_data' = res.table
    /\ task' = [task EXCEPT ![c] =
          IF IsIngest THEN [@ EXCEPT !.pc = "mark", !.crawl.committed = TRUE]
          ELSE [@ EXCEPT !.pc = "done", !.outcome = "ok", !.crawl.committed = TRUE]]
    /\ UNCHANGED <<last_update_date, driver, mode, consumers, run, refreshed, limBusy>>
    /\ UNCHANGED notRunVars

\* bulk_upsert raises SQLAlchemyError at some row; the batch is rolled back.
\* The error text quotes the statement's parameters, so it may or may not
\* contain a ban pattern.
UpsertFails(c) ==
    /\ task[c].pc = "upsert"
    /\ mode[c] = "any"
    /\ \E failAt \in 1..Len(task[c].rows), ban \in BOOLEAN :
         LET res == bulk_upsert(stock_data, task[c].rows, DefaultBatchSize, failAt)
         IN  /\ ~res.ok
             /\ stock_data' = res.table
             /\ task' = [task EXCEPT ![c] = OnError(@, "persist", ban)]
    /\ UNCHANGED <<last_update_date, driver, mode, consumers, run, refreshed, limBusy>>
    /\ UNCHANGED notRunVars

\* UPDATE stocks SET last_update_date = :d WHERE code = :code
update_last_date_for_code(marks, c, last_date) == [marks EXCEPT ![c] = last_date]

\* crawl_code after the upsert: the mark is set to the maximum fetched date
MarkOk(c) ==
    /\ task[c].pc = "mark"
    /\ last_update_date' = update_last_date_for_code(last_update_date, c, MaxRowDate(task[c].rows))
    /\ task' = [task EXCEPT ![c].pc = "next", ![c].crawl.marked = TRUE, ![c].crawl.fin = "returned",
                            ![c].attempted = Append(@, CurRange(task[c]))]
    /\ UNCHANGED <<stock_data, driver, mode, consumers, run, refreshed, limBusy>>
    /\ UNCHANGED notRunVars

\* the UPDATE raises; crawl_code logs the exception and returns normally
MarkFails(c) ==
    /\ task[c].pc = "mark"
    /\ mode[c] = "any"
    /\ task' = [task EXCEPT ![c].pc = "next", ![c].crawl.fin = "returned",
                            ![c].attempted = Append(@, CurRange(task[c]))]
    /\ UNCHANGED <<stock_data, last_update_date, driver, mode, consumers, run, refreshed, limBusy>>
    /\ UNCHANGED notRunVars

\* a loop that stops at the first range whose crawl raised
NextRange_StopOnFailure(c) ==
    /\ task[c].pc = "next"
    /\ task' = [task EXCEPT ![c] =
          IF @.ri < Len(@.ranges) /\ @.crawl.fin # "raised"
          THEN [@ EXCEPT !.pc = "wait", !.ri = @ + 1, !.attempt = 1, !.rows = <<>>, !.df = <<>>,
                         !.crawl = [NoCrawl EXCEPT !.mark0 = last_update_date[c]]]
          ELSE [@ EXCEPT !.pc = "done", !.outcome = "returned"]]
    /\ UNCHANGED <<stock_data, last_update_date, driver, mode, consumers, run, refreshed, limBusy>>
    /\ UNCHANGED notRunVars

\* crawl_code_missing: the loop `for s, e in ranges` moves on, or returns
NextRange(c) ==
    /\ task[c].pc = "next"
    /\ task' = [task EXCEPT ![c] =
          IF @.ri < Len(@.ranges)
          THEN [@ EXCEPT !.pc = "wait", !.ri = @ + 1, !.attempt = 1, !.rows = <<>>, !.df = <<>>,
                         !.crawl = [NoCrawl EXCEPT !.mark0 = last_update_date[c]]]
          ELSE [@ EXCEPT !.pc = "done", !.outcome = "returned"]]
    /\ UNCHANGED <<stock_data, last_update_date, driver, mode, consumers, run, refreshed, limBusy>>
    /\ UNCHANGED notRunVars

\* a retry loop that runs one attempt too many
SleepWake_ExtraAttempt(c) ==
    /\ task[c].pc \in {"backoff", "cooldown"}
    /\ task' = [task EXCEPT ![c] =
          IF @.attempt <= MaxAttempts
          THEN [@ EXCEPT !.pc = "wait", !.attempt = @ + 1, !.df = <<>>, !.sleeps = @ + 1]
          ELSE [@ EXCEPT !.pc = "done", !.outcome = "gaveup", !.sleeps = @ + 1,
                         !.giveups = @ \cup {<<task[c].ri, task[c].attempt>>}]]
    /\ UNCHANGED <<stock_data, last_update_date, driver, mode, consumers, run, refreshed, limBusy>>
    /\ UNCHANGED notRunVars

\* fetch_one_to_mysql: the sleep of the except clause ends; the loop goes to
\* the next attempt, or its else clause logs the give-up after the last one
SleepWake(c) ==
    /\ task[c].pc \in {"backoff", "cooldown"}
    /\ task' = [task EXCEPT ![c] =
          IF @.attempt < MaxAttempts
          THEN [@ EXCEPT !.pc = "wait", !.attempt = @ + 1, !.df = <<>>, !.sleeps = @ + 1]
          ELSE [@ EXCEPT !.pc = "done", !.outcome = "gaveup", !.sleeps = @ + 1,
                         !.giveups = @ \cup {<<task[c].ri, task[c].attempt>>}]]
    /\ UNCHANGED <<stock_data, last_update_date, driver, mode, consumers, run, refreshed, limBusy>>
    /\ UNCHANGED notRunVars

\* what _task returns for code c: (c, True) when crawl_code_missing returned,
\* (c, False) when it raised
TaskResult(c) == task[c].outcome # "raised"

\* a coordinator that returns while tasks are still queued or running
CoordinatorReturn_NoWait ==
    /\ run = "running"
    /\ run' = "returned"
    /\ UNCHANGED <<stock_data, last_update_date, driver, mode, consumers, refreshed, limBusy, task>>
    /\ UNCHANGED notRunVars

\* the pool has been drained: the coordinator returns
\* (AsyncKlineIngestor.run: q.join() has returned; c.cancel() for every
\* consumer, then gather)
CoordinatorReturn ==
    /\ run = "running"
    /\ \A c \in Codes : task[c].pc = "done"
    /\ run' = "returned"
    /\ consumers' = IF driver = "AsyncKlineIngestor.run" THEN "cancelled" ELSE consumers
    /\ UNCHANGED <<stock_data, last_update_date, driver, mode, refreshed, limBusy, task>>
    /\ UNCHANGED notRunVars

RunNext ==
    \/ Refresh
    \/ Dispatch
    \/ CoordinatorReturn
    \/ \E c \in Codes : TaskStart(c)
    \/ \E c \in Codes : IngestStart(c)
    \/ \E c \in Codes : IngestStartFails(c)
    \/ \E c \in Codes : FetchStart(c)
    \/ \E c \in Codes : LimiterPass(c)
    \/ \E c \in Codes : LimiterSleep(c)
    \/ \E c \in Codes : LimiterWake(c)
    \/ \E c \in Codes : CallRaises(c)
    \/ \E c \in Codes : IngestCallReturns(c)
    \/ \E c \in Codes : FetchCallReturns(c)
    \/ \E c \in Codes : CheckOk(c)
    \/ \E c \in Codes : CheckFails(c)
    \/ \E c \in Codes : UpsertOk(c)
    \/ \E c \in Codes : UpsertFails(c)
    \/ \E c \in Codes : MarkOk(c)
    \/ \E c \in Codes : MarkFails(c)
    \/ \E c \in Codes : NextRange(c)
    \/ \E c \in Codes : SleepWake(c)

\* ------------------------------------------------------------------------
\* The thread pool of fetch_all_klines / crawl_all_missing on a list of codes:
\*   with ThreadPoolExecutor(max_workers=workers) as executor:
\*       futures = [executor.submit(task, code) for code in codes]
\*       for _ in as_completed(futures): pass
\* ------------------------------------------------------------------------
MaxListLen == 3

\* the lists a caller may pass as specify_stock_codes (non-empty: an empty
\* list makes fetch_all_klines load the codes from the database instead)
CodeLists == UNION {[1..n -> Codes] : n \in 1..MaxListLen}

PoolInputs(codes) ==
    /\ pool_codes = codes
    /\ futures = [i \in DOMAIN codes |-> "queued"]
    /\ pool_exit = FALSE

PoolIdle == PoolInputs(<<>>)

\* the futures a pool thread is executing
PoolRunning == {i \in DOMAIN futures : futures[i] = "running"}

\* the operations in flight for security c
InFlight(c) == {i \in PoolRunning : pool_codes[i] = c}

\* a free pool thread takes the next submitted work item (FIFO work queue)
PoolStart(i) ==
    /\ ~pool_exit
    /\ i \in DOMAIN futures
    /\ futures[i] = "queued"
    /\ \A j \in DOMAIN futures : j < i => futures[j] # "queued"
    /\ Cardinality(PoolRunning) < PoolWorkers
    /\ futures' = [futures EXCEPT ![i] = "running"]
    /\ UNCHANGED <<pool_codes, pool_exit>>
    /\ UNCHANGED notPoolVars

\* the task of a future returns (fetch_one_to_mysql / _task never raise)
PoolFinish(i) ==
    /\ i \in DOMAIN futures
    /\ futures[i] = "running"
    /\ futures' = [futures EXCEPT ![i] = "done"]
    /\ UNCHANGED <<pool_codes, pool_exit>>
    /\ UNCHANGED notPoolVars

\* as_completed is exhausted and the with block shuts the pool down (wait=True)
PoolExit ==
    /\ ~pool_exit
    /\ \A i \in DOMAIN futures : futures[i] = "done"
    /\ pool_exit' = TRUE
    /\ UNCHANGED <<pool_codes, futures>>
    /\ UNCHANGED notPoolVars

PoolNext ==
    \/ \E i \in 1..MaxListLen : PoolStart(i)
    \/ \E i \in 1..MaxListLen : PoolFinish(i)
    \/ PoolExit

\* ------------------------------------------------------------------------
\* The provider clients on a frame returned by ts.pro_bar:
\* TushareAPI.get_kline; _get_kline_tushare followed, in fetch_one_to_mysql,
\* by validate
\* ------------------------------------------------------------------------
MaxFrameLen == 3
FrameVals == {1, 2}
FrameRows == [date : 0..MaxDate, val : FrameVals]
RawFrames == UNION {[1..n -> FrameRows] : n \in 0..MaxFrameLen}

ClientInputs(df) ==
    /\ raw_df = df
    /\ client_out = [by |-> "none", ok |-> TRUE, df |-> <<>>]

ClientIdle == ClientInputs(<<>>)

\* TushareAPI.get_kline: validate, then sort_values
ClientGetKline ==
    /\ client_out.by = "none"
    /\ client_out' = [by |-> "TushareAPI.get_kline", ok |-> get_kline(raw_df).ok,
                      df |-> get_kline(raw_df).df]
    /\ UNCHANGED raw_df
    /\ UNCHANGED notClientVars

\* _get_kline_tushare: an empty frame, or df.sort_values("date")
ClientGetKlineTushare ==
    /\ client_out.by = "none"
    /\ client_out' = [by |-> "_get_kline_tushare", ok |-> TRUE, df |-> sort_values(raw_df)]
    /\ UNCHANGED raw_df
    /\ UNCHANGED notClientVars

\* fetch_one_to_mysql: new_df = validate(new_df), unless new_df.empty
ClientValidate ==
    /\ client_out.by = "_get_kline_tushare"
    /\ client_out.df # <<>>
    /\ client_out' = [by |-> "validate", ok |-> validate(client_out.df).ok,
                      df |-> validate(client_out.df).df]
    /\ UNCHANGED raw_df
    /\ UNCHANGED notClientVars

ClientNext ==
    \/ ClientGetKline
    \/ ClientGetKlineTushare
    \/ ClientValidate

\* ------------------------------------------------------------------------
\* MissingKlineFinder.get_expected_dates and its cache, called by the
\* threads that share one finder
\* ------------------------------------------------------------------------
MaxCalDate == 4
NCallers == 2
MaxCalCalls == 3
\* date.weekday() of day 0 (Monday is 0): day 1 is a Friday
Day0Weekday == 3

CalDates == 1..MaxCalDate
Callers == 1..NCallers
\* key = (start_d.isoformat(), end_d.isoformat())
CalKeys == {k \in CalDates \X CalDates : k[1] <= k[2]}

weekday(d) == (d + Day0Weekday) % 7

\* a fallback calendar that takes every day of the interval
bdate_range_EveryDay(s, e) == s..e

\* pd.bdate_range(start, end): the days from Monday to Friday
bdate_range(s, e) == {d \in s..e : weekday(d) < 5}

\* self.pro.trade_cal(start_date, end_date) filtered by is_open == 1
trade_cal(open, s, e) == {d \in s..e : d \in open}

NoCall == [pc |-> "idle", key |-> <<0, 0>>, how |-> "none", ret |-> {}]

\* MissingKlineFinder.__init__: self.pro, and an empty cache
CalNew(open, pro, req) ==
    /\ cal_open = open
    /\ finder_pro = pro
    /\ cal_req = req
    /\ cal_cache = [k \in {} |-> {}]
    /\ cal_writes = [k \in CalKeys |-> 0]
    /\ cal_call = [w \in Callers |-> NoCall]
    /\ cal_n = 0
    /\ cal_stored = [w \in Callers |-> {}]

CalIdle == CalNew({}, FALSE, <<1, 1>>)


\* if key in self._cal_cache: return self._cal_cache[key]
CalHit(w, k) ==
    /\ cal_call[w].pc \in {"idle", "done", "passed"}
    /\ cal_n < MaxCalCalls
    /\ cal_n' = cal_n + 1
    /\ k = cal_req
    /\ k \in DOMAIN cal_cache
    /\ cal_call' = [cal_call EXCEPT ![w] =
          [pc |-> "done", key |-> k, how |-> "hit", ret |-> cal_cache[k]]]
    /\ UNCHANGED <<cal_open, finder_pro, cal_req, cal_cache, cal_writes, cal_stored>>
    /\ UNCHANGED notCalVars

\* the key is not in the cache: the caller goes on to compute the dates
CalMiss(w, k) ==
    /\ cal_call[w].pc \in {"idle", "done", "passed"}
    /\ cal_n < MaxCalCalls
    /\ cal_n' = cal_n + 1
    /\ k = cal_req
    /\ k \notin DOMAIN cal_cache
    /\ cal_call' = [cal_call EXCEPT ![w] =
          [pc |-> "miss", key |-> k, how |-> "none", ret |-> {}]]
    /\ UNCHANGED <<cal_open, finder_pro, cal_req, cal_cache, cal_writes, cal_stored>>
    /\ UNCHANGED notCalVars

\* self._cal_cache[key] = dates; return dates
CacheStore(w, dates, how) ==
    LET k == cal_call[w].key
    IN  /\ cal_cache' = [k2 \in DOMAIN cal_cache \cup {k} |-> IF k2 = k THEN dates ELSE cal_cache[k2]]
        /\ cal_writes' = [cal_writes EXCEPT ![k] = @ + 1]
        /\ cal_call' = [cal_call EXCEPT ![w].pc = "done", ![w].how = how, ![w].ret = dates]

\* trade_cal returns a non-empty frame: its open days are cached and returned
CalProviderData(w) ==
    /\ cal_call[w].pc = "miss"
    /\ finder_pro
    /\ CacheStore(w, trade_cal(cal_open, cal_call[w].key[1], cal_call[w].key[2]), "data")
    /\ UNCHANGED <<cal_open, finder_pro, cal_req, cal_n, cal_stored>>
    /\ UNCHANGED notCalVars

\* trade_cal raises (the except clause logs it) or returns None or an empty
\* frame: the business days are cached and returned
CalProviderFails(w) ==
    /\ cal_call[w].pc = "miss"
    /\ finder_pro
    /\ \E how \in {"raise", "empty"} :
         CacheStore(w, bdate_range(cal_call[w].key[1], cal_call[w].key[2]), how)
    /\ UNCHANGED <<cal_open, finder_pro, cal_req, cal_n, cal_stored>>
    /\ UNCHANGED notCalVars

\* self.pro is None: the business days are cached and returned
CalNoProvider(w) ==
    /\ cal_call[w].pc = "miss"
    /\ ~finder_pro
    /\ CacheStore(w, bdate_range(cal_call[w].key[1], cal_call[w].key[2]), "nopro")
    /\ UNCHANGED <<cal_open, finder_pro, cal_req, cal_n, cal_stored>>
    /\ UNCHANGED notCalVars

\* the dates of the bars fetched for the ranges when ts.pro_bar returns a
\* bar for every date it is asked for
FetchedDates(ranges) == UNION {ranges[i][1]..ranges[i][2] : i \in DOMAIN ranges}

\* crawl_code_missing of the thread's security over the interval, after
\* get_expected_dates has returned inside find_missing_dates: every range is
\* fetched with a bar for each of its dates, and every upsert commits
CrawlPass(w) ==
    /\ cal_call[w].pc = "done"
    /\ LET k == cal_call[w].key
           existing == {d \in cal_stored[w] : d >= k[1] /\ d <= k[2]}
           ranges == missing_ranges(find_missing_dates(cal_call[w].ret, existing),
                                    DefaultMaxSpanDays)
       IN  cal_stored' = [cal_stored EXCEPT ![w] = @ \cup FetchedDates(ranges)]
    /\ cal_call' = [cal_call EXCEPT ![w].pc = "passed"]
    /\ UNCHANGED <<cal_open, finder_pro, cal_req, cal_cache, cal_writes, cal_n>>
    /\ UNCHANGED notCalVars

CalNext ==
    \/ \E w \in Callers : CrawlPass(w)
    \/ \E w \in Callers, k \in CalKeys : CalHit(w, k)
    \/ \E w \in Callers, k \in CalKeys : CalMiss(w, k)
    \/ \E w \in Callers : CalProviderData(w)
    \/ \E w \in Callers : CalProviderFails(w)
    \/ \E w \in Callers : CalNoProvider(w)

\* ------------------------------------------------------------------------
\* Specifications
\* ------------------------------------------------------------------------
LimInit ==
    /\ \E cfg \in LimConfigs : LimNew(cfg[1], cfg[2])
    /\ GapIdle
    /\ StoreIdle
    /\ RunIdle
    /\ PoolIdle
    /\ ClientIdle
    /\ CalIdle

SpecLimiter == LimInit /\ [][LimNext]_vars

GapInit ==
    /\ LimNew(DefaultMaxCalls, DefaultTimeWindow)
    /\ \E expected \in SUBSET GapDates, existing \in SUBSET GapDates, span \in Spans :
          GapInputs(expected, existing, span)
    /\ StoreIdle
    /\ RunIdle
    /\ PoolIdle
    /\ ClientIdle
    /\ CalIdle

GapNext == GapFind

SpecGap == GapInit /\ [][GapNext]_vars

StoreInit ==
    /\ LimNew(DefaultMaxCalls, DefaultTimeWindow)
    /\ GapIdle
    /\ \E table \in StoreTables, rows \in StoreBatches : StoreInputs(table, rows)
    /\ RunIdle
    /\ PoolIdle
    /\ ClientIdle
    /\ CalIdle

StoreNext == StoreBulkUpsert

SpecStore == StoreInit /\ [][StoreNext]_vars

Init ==
    /\ LimNew(DefaultMaxCalls, DefaultTimeWindow)
    /\ GapIdle
    /\ \E stored \in SUBSET Codes : StoreInputs(StoredBefore(stored), <<>>)
    /\ \E d \in Drivers, m \in ModeMaps : RunNew(d, m)
    /\ PoolIdle
    /\ ClientIdle
    /\ CalIdle

Next == RunNext

Spec == Init /\ [][Next]_vars

PoolInit ==
    /\ LimNew(DefaultMaxCalls, DefaultTimeWindow)
    /\ GapIdle
    /\ StoreIdle
    /\ RunIdle
    /\ \E codes \in CodeLists : PoolInputs(codes)
    /\ ClientIdle
    /\ CalIdle

SpecPool == PoolInit /\ [][PoolNext]_vars

ClientInit ==
    /\ LimNew(DefaultMaxCalls, DefaultTimeWindow)
    /\ GapIdle
    /\ StoreIdle
    /\ RunIdle
    /\ PoolIdle
    /\ \E df \in RawFrames : ClientInputs(df)
    /\ CalIdle

SpecClient == ClientInit /\ [][ClientNext]_vars

CalInit ==
    /\ LimNew(DefaultMaxCalls, DefaultTimeWindow)
    /\ GapIdle
    /\ StoreIdle
    /\ RunIdle
    /\ PoolIdle
    /\ ClientIdle
    /\ \E open \in SUBSET CalDates, pro \in BOOLEAN, req \in CalKeys :
         \* without a provider there is no provider calendar to draw
         /\ pro \/ open = {}
         /\ CalNew(open, pro, req)

SpecCal == CalInit /\ [][CalNext]_vars

\* ------------------------------------------------------------------------
\* Properties
\* ------------------------------------------------------------------------
\* number of recorded calls whose timestamp lies in the trailing window (t - w, t]
InWindow(t) ==
    Cardinality({i \in DOMAIN issued : issued[i] > t - time_window /\ issued[i] <= t})

\* C1: at every instant t, the number of calls recorded with a timestamp in
\* the trailing window of time_window seconds ending at t never exceeds
\* max_calls, under every interleaving of the threads.
C1_RateCeiling == \A t \in 0..clock : InWindow(t) <= max_calls

\* a caller found the window full, slept, and was recorded after the sleep
C1_Witness ==
    /\ \E t \in Threads : slept[t] = 1 /\ tpc[t] = "idle"
    /\ Len(issued) > max_calls
    /\ \E t \in 0..clock : InWindow(t) = max_calls

SeqToSet(q) == {q[i] : i \in DOMAIN q}

\* every calendar day from the start to the end of the ranges, inclusive
Covered(ranges) == UNION {ranges[i][1]..ranges[i][2] : i \in DOMAIN ranges}

\* C4: the ranges returned by missing_ranges are pairwise disjoint, sorted
\* ascending by start, and the days they cover are exactly the missing dates
\* (no stored date, no non-expected date inside a range, no missing date
\* outside every range); calendar 1..5 with days 2 and 4 stored gives three
\* single-day ranges.
C4_RangesExact ==
    gDone =>
    /\ \A i \in DOMAIN gRanges : gRanges[i][1] <= gRanges[i][2]
    /\ \A i, j \in DOMAIN gRanges : i < j => gRanges[i][2] < gRanges[j][1]
    /\ Covered(gRanges) = SeqToSet(gMissing)
    /\ Covered(gRanges) \cap gExisting = {}
    /\ Covered(gRanges) \subseteq gExpected
    /\ (gExpected = 1..5 /\ gExisting = {2, 4})
          => gRanges = << <<1, 1>>, <<3, 3>>, <<5, 5>> >>

\* the calendar 1..5 with days 2 and 4 stored has been reconciled
C4_Witness ==
    /\ gDone
    /\ gExpected = 1..5
    /\ gExisting = {2, 4}
    /\ Len(gRanges) = 3

NoDupKeys == \A x, y \in stock_data : SameKey(x, y) => x = y

\* the value the batch leaves for the key of row r: that of its last row with that key
LastFor(rows, r) ==
    rows[CHOOSE i \in DOMAIN rows :
            /\ SameKey(rows[i], r)
            /\ \A j \in DOMAIN rows : SameKey(rows[j], r) => j <= i]

LastOk == sLast.oks # <<>> /\ sLast.oks[Len(sLast.oks)]

\* C9: upserting the same batch again through bulk_upsert leaves the store as
\* the first upsert left it; the store holds one row per (code, date), with
\* the field values of the batch for the keys of a batch just upserted.
C9_Idempotent ==
    /\ NoDupKeys
    /\ LastOk => \A i \in DOMAIN sLast.rows : LastFor(sLast.rows, sLast.rows[i]) \in stock_data
    /\ sLast.oks = <<TRUE, TRUE>> => stock_data = sLast.before

\* a batch of two rows with different keys was upserted twice, both calls succeeding
C9_Witness ==
    /\ sLast.oks = <<TRUE, TRUE>>
    /\ Len(sLast.rows) = 2
    /\ ~SameKey(sLast.rows[1], sLast.rows[2])
    /\ {sLast.rows[1], sLast.rows[2]} \subseteq stock_data

\* ---- properties of a run ----
Mark(c) == last_update_date[c]
StoredDates(c) == {x.date : x \in {y \in stock_data : y.code = c}}
Intervals == {iv \in (1..MaxDate) \X (1..MaxDate) : iv[1] <= iv[2]}
Dispatched(c) == task[c].pc # "queued" /\ task[c].outcome # "skipped"

\* C2 (as claimed): across any sequence of range ingestions, in any order of
\* ranges and with any pre-existing mark, last_update_date never decreases.
C2_MarkNeverDecreases ==
    [][\A c \in Codes : last_update_date'[c] >= last_update_date[c]]_vars

C5_AllOrNothing ==
    \A c \in Codes :
        (task[c].pc = "next" /\ task[c].crawl.fin # "none") =>
            \/ /\ task[c].crawl.committed
               /\ \A i \in DOMAIN task[c].rows : task[c].rows[i] \in stock_data
               /\ Mark(c) = MaxRowDate(task[c].rows)
            \/ /\ ~task[c].crawl.committed
               /\ Mark(c) = task[c].crawl.mark0

\* C6: in every reachable state the mark of a code is NULL or at most the
\* maximum stored date of that code, and the mark is only ever written to a
\* date whose row is already committed in the store (never before the upsert,
\* never on a failed upsert).
C6_MarkBehindStore ==
    /\ [](\A c \in Codes : Mark(c) = 0 \/ Mark(c) <= MaxStored(stock_data, c))
    /\ [][\A c \in Codes : last_update_date'[c] # last_update_date[c]
                              => last_update_date'[c] \in StoredDates(c)]_vars

\* crawl_code committed a range and then advanced the mark
C6_Witness ==
    \E c \in Codes :
        /\ task[c].pc = "next"
        /\ task[c].crawl.committed
        /\ task[c].crawl.marked
        /\ Mark(c) # 0
        /\ Mark(c) = MaxRowDate(task[c].rows)

AttemptCap == IF IsFetch THEN MaxAttempts ELSE 1

C10_BanIsolation ==
    \A c \in Codes :
        /\ (mode[c] = "ban" /\ task[c].pc = "done" /\ Dispatched(c)) =>
              /\ task[c].outcome \in {"gaveup", "returned"}
              /\ task[c].giveups = {<<i, AttemptCap>> : i \in 1..Len(task[c].ranges)}
              /\ ~task[c].crawl.committed
        /\ (mode[c] = "ok" /\ task[c].pc = "done" /\ Dispatched(c)) =>
              /\ task[c].outcome \in {"ok", "returned", "nodata"}
              /\ task[c].giveups = {}
              /\ get_expected_dates(RunStart, RunEnd) \subseteq StoredDates(c)
        /\ task[c].pc \in {"backoff", "cooldown"} => limBusy # c
        /\ run = "raised" => task[c].pc = "queued"

\* the run returned with the banned security given up after 3 attempts and
\* the other security ingested
C10_Witness ==
    /\ run = "returned"
    /\ \E c, c2 \in Codes :
         /\ mode[c] = "ban"
         /\ task[c].outcome = "gaveup"
         /\ task[c].attempt = MaxAttempts
         /\ mode[c2] = "ok"
         /\ task[c2].outcome = "ok"
         /\ get_expected_dates(RunStart, RunEnd) \subseteq StoredDates(c2)

\* ---- properties of the pool ----
\* C11: during a coordinator run at most one fetch or persist operation is in
\* flight for any one security at any time, under every interleaving of the
\* pool's workers.
C11_OneInFlight == \A c \in Codes : Cardinality(InFlight(c)) <= 1

\* ---- properties of the attempts of a run ----
\* the failed attempts of task t at its range r
ErrsAt(t, r) == {i \in DOMAIN t.errs : t.errs[i].ri = r}

\* every failed attempt recorded by t was a remote call failing with a ban pattern
OnlyBanFailures(t) ==
    /\ t.errs # <<>>
    /\ \A i \in DOMAIN t.errs : t.errs[i].kind = "remote" /\ t.errs[i].ban

\* C12: when the fetch of a range fails with a ban-pattern error on its first
\* one or two attempts and a later attempt within the cap succeeds with rows,
\* every failure was followed by a cooldown and a retry, the rows are
\* persisted, the range ends Done and the security's last_update_date is the
\* maximum date among the persisted rows.
C12_BanThenSuccess ==
    \A c \in Codes :
        (task[c].outcome = "ok" /\ OnlyBanFailures(task[c])) =>
            /\ \A i \in DOMAIN task[c].errs : task[c].errs[i].via = "_cool_sleep"
            /\ task[c].attempt = Len(task[c].errs) + 1
            /\ \A i \in DOMAIN task[c].rows : task[c].rows[i] \in stock_data
            /\ last_update_date[c] = MaxRowDate(task[c].rows)

\* the frame fetched by the attempt in progress of t fails validation
InvalidFetched(t) == t.df # <<>> /\ ~DatesValid(t.df)

RowsOf(table, c) == {x \in table : x.code = c}

\* C13: when the rows fetched for a range fail validation (a null date or a
\* date later than today) the attempt is a failure: no row of that fetch is
\* persisted and last_update_date is not advanced; once 3 attempts at a range
\* have failed validation the range is Failed with the mark as it was.
C13_InvalidNotPersisted ==
    /\ [](\A c \in Codes :
            /\ InvalidFetched(task[c]) =>
                  /\ task[c].rows = <<>>
                  /\ task[c].pc \in {"next", "backoff", "done"}
                  /\ task[c].errs # <<>>
                  /\ task[c].errs[Len(task[c].errs)].kind = "invalid"
            /\ \A r \in DOMAIN task[c].ranges :
                  ( /\ Cardinality({i \in ErrsAt(task[c], r) : task[c].errs[i].kind = "invalid"}) = 3
                    /\ task[c].pc \notin {"backoff", "cooldown"} ) =>
                       /\ task[c].pc = "done"
                       /\ task[c].outcome = "gaveup"
                       /\ <<r, MaxAttempts>> \in task[c].giveups
                       /\ last_update_date[c] = task[c].crawl.mark0)
    /\ [][\A c \in Codes :
            InvalidFetched(task'[c]) =>
                /\ last_update_date'[c] = last_update_date[c]
                /\ RowsOf(stock_data', c) = RowsOf(stock_data, c)]_vars

\* three fetches of a range returned the asked bars together with tomorrow's,
\* and the range was given up
C13_Witness ==
    \E c \in Codes :
        /\ task[c].outcome = "gaveup"
        /\ Len(task[c].errs) = 3
        /\ \A i \in DOMAIN task[c].errs : task[c].errs[i].kind = "invalid"
        /\ Len(task[c].df) > 1

\* C14: an empty result of the provider for a range is a success with zero
\* rows: nothing is persisted, no retry or backoff follows and no error is
\* raised or recorded for the range.
C14_EmptyIsSuccess ==
    \A c \in Codes :
        /\ \A i \in DOMAIN task[c].errs : task[c].errs[i].kind # "empty"
        /\ task[c].outcome = "nodata" => task[c].rows = <<>> /\ ~task[c].crawl.committed

\* C15: when the remote call of the provider client (TushareAPI.get_kline,
\* _get_kline_tushare) raises, an error whose text matches a ban pattern
\* reaches the caller as RateLimitError and any other error unchanged.
C15_BanClassified ==
    \A c \in Codes : \A i \in DOMAIN task[c].errs :
        task[c].errs[i].kind = "remote" =>
            task[c].errs[i].exc = IF task[c].errs[i].ban THEN "RateLimitError" ELSE "original"

\* ---- properties of the coordinator ----
Succeeded == {c \in Codes : task[c].pc = "done" /\ task[c].outcome # "skipped" /\ TaskResult(c)}
Failed == {c \in Codes : task[c].pc = "done" /\ task[c].outcome # "skipped" /\ ~TaskResult(c)}

\* C18: with two securities, one always failing with a ban pattern and one
\* succeeding, a run of KlineIngestor's coordinator completes with 1 succeeded
\* and 1 failed and no exception reaches the caller.
C18_AggregateCounts ==
    ( /\ IsIngest
      /\ run \in {"returned", "raised"}
      /\ \E c \in Codes : mode[c] = "ban"
      /\ \E c \in Codes : mode[c] = "ok" ) =>
        /\ run = "returned"
        /\ Cardinality(Succeeded) = 1
        /\ Cardinality(Failed) = 1

\* C19: the coordinator returns only after every dispatched task has finished;
\* no task is queued or running when it returns, and none runs afterwards.
C19_ReturnsAfterAll ==
    /\ [](run = "returned" => \A c \in Codes : task[c].pc = "done")
    /\ [][run = "returned" => task' = task]_vars

\* a fetch_all_klines run returned after one task gave up and another stored rows
C19_Witness ==
    /\ run = "returned"
    /\ driver = "fetch_all_klines"
    /\ \E c \in Codes : task[c].outcome = "gaveup"
    /\ \E c \in Codes : task[c].outcome = "ok"

\* C20: crawl_all_missing dispatches a task for exactly the securities whose
\* last_update_date is null or earlier than the target end date of the run.
C20_DispatchSet ==
    [][(driver = "crawl_all_missing" /\ run = "init" /\ run' # "init") =>
          /\ run' # "raised"
          /\ \A c \in Codes :
                (task'[c].outcome # "skipped")
                    <=> (last_update_date[c] = 0 \/ last_update_date[c] < RunEnd)]_vars

Dates(df) == {df[i].date : i \in DOMAIN df}

\* pairwise distinct dates, none missing or after today, ascending
Clean(df) ==
    /\ \A i, j \in DOMAIN df : i # j => df[i].date # df[j].date
    /\ \A i \in DOMAIN df : df[i].date \in 1..Today
    /\ \A i, j \in DOMAIN df : i < j => df[i].date < df[j].date

Returned(by) == client_out.by = by /\ client_out.ok /\ client_out.df # <<>>

\* C16: whenever the bar fetch of a provider client (TushareAPI.get_kline,
\* _get_kline_tushare) returns rows, the rows have pairwise distinct dates,
\* every date is non-null and not later than today, and the rows are sorted
\* ascending by date.
C16_ReturnedClean ==
    (Returned("TushareAPI.get_kline") \/ Returned("_get_kline_tushare")) => Clean(client_out.df)

\* C16 (amended): the rows TushareAPI.get_kline returns, and the rows validate
\* returns to fetch_one_to_mysql, have pairwise distinct dates, each non-null
\* and not later than today, ascending, and are rows of the provider's frame,
\* one for each of its dates; _get_kline_tushare itself returns all the rows
\* of the frame, ascending among the dated ones.
C16_ValidatedClean ==
    /\ (Returned("TushareAPI.get_kline") \/ Returned("validate")) =>
          /\ Clean(client_out.df)
          /\ Dates(client_out.df) = Dates(raw_df)
          /\ \A i \in DOMAIN client_out.df : \E j \in DOMAIN raw_df : client_out.df[i] = raw_df[j]
    /\ Returned("_get_kline_tushare") =>
          /\ Len(client_out.df) = Len(raw_df)
          /\ \A j \in DOMAIN raw_df :
                Cardinality({i \in DOMAIN client_out.df : client_out.df[i] = raw_df[j]})
                    = Cardinality({i \in DOMAIN raw_df : raw_df[i] = raw_df[j]})
          /\ \A i, j \in DOMAIN client_out.df :
                (i < j /\ client_out.df[j].date # 0) =>
                    (client_out.df[i].date # 0 /\ client_out.df[i].date <= client_out.df[j].date)

\* validate returned two rows for an unsorted frame of three with a repeated date
C16_Witness ==
    /\ Returned("validate")
    /\ Len(raw_df) = 3
    /\ Len(client_out.df) = 2
    /\ raw_df[1].date > raw_df[2].date

\* C24: the lock of wait_if_needed is held for the bookkeeping only: while
\* a caller sleeps, no thread holds the lock, so another thread can enter.
C24_SleepOutsideLock ==
    \A t \in Threads : tpc[t] = "sleeping" => lockHolder = {}

\* C29: a caller that finds the window full sleeps
\* time_window - (now - oldest retained call) + 1, so its sleep ends one
\* second after the oldest retained call has left the window, and it then
\* records its call; when the first max_calls calls are made at time 0 the
\* next call is recorded at time_window + 1 or later (max_calls = 2,
\* time_window = 10: two calls at 0, the third at 11).
C29_SleepUntilWindowPasses ==
    /\ \A t \in Threads :
          /\ tpc[t] = "sleeping" => wakeAt[t] = Head(calls) + time_window + 1
          /\ (tpc[t] = "idle" /\ slept[t] = 1) =>
                \E i \in DOMAIN issued : issued[i] >= wakeAt[t]
    /\ (Len(issued) > max_calls /\ \A i \in 1..max_calls : issued[i] = 0) =>
          issued[max_calls + 1] >= time_window + 1

\* the limiter of the example: three calls at time 0, the third caller slept
\* and was recorded as soon as its sleep ended
C29_Witness ==
    /\ max_calls = ExampleMaxCalls
    /\ time_window = ExampleTimeWindow
    /\ Len(issued) = max_calls + 1
    /\ \A i \in 1..max_calls : issued[i] = 0
    /\ issued[max_calls + 1] = time_window + 1
    /\ \E t \in Threads : slept[t] = 1 /\ tpc[t] = "idle" /\ wakeAt[t] = time_window + 1

\* C23: crawl_code_missing returns every range it attempted: one entry per
\* range of missing_ranges, in ascending order, whether the crawl of the
\* range succeeded or failed.
C23_AllRangesReturned ==
    \A c \in Codes :
        (IsIngest /\ task[c].pc = "done" /\ task[c].outcome = "returned") =>
            task[c].attempted = task[c].ranges

\* C25: in fetch_one_to_mysql a failure between the fetch and the upsert
\* (validation, stock-info check) is always followed by the linear backoff
\* of the non-ban path, never by the ban cooldown, whatever the code is.
C25_LocalFailuresBackoff ==
    \A c \in Codes : \A i \in DOMAIN task[c].errs :
        (IsFetch /\ task[c].errs[i].kind \in {"invalid", "check"}) =>
            task[c].errs[i].via = "time.sleep"

\* the ranges of a task are disjoint and ascending
RangesAscending(rs) ==
    \A i \in DOMAIN rs : rs[i][1] <= rs[i][2] /\ (i > 1 => rs[i - 1][2] < rs[i][1])

\* the position in the ranges moves only from a range whose crawl has
\* returned or raised, and only to the range after it
C28_Step ==
    \A c \in Codes :
        (IsIngest /\ task'[c].ri # task[c].ri) =>
            \/ task[c].pc = "start" /\ task'[c].ri = 1
            \/ /\ task[c].pc = "next"
               /\ task[c].crawl.fin \in {"returned", "raised"}
               /\ task'[c].ri = task[c].ri + 1
               /\ task'[c].crawl.fin = "none"

\* the ranges before the current one have each ended, in success or in
\* failure, and a task that returned has gone through every range
C28_Order ==
    \A c \in Codes :
        IsIngest =>
            /\ RangesAscending(task[c].ranges)
            /\ \A i \in 1..(task[c].ri - 1) :
                  \/ \E k \in DOMAIN task[c].attempted : task[c].attempted[k] = task[c].ranges[i]
                  \/ <<i, 1>> \in task[c].giveups
            /\ (task[c].pc = "done" /\ task[c].outcome = "returned" /\ task[c].ranges # <<>>) =>
                  /\ task[c].ri = Len(task[c].ranges)
                  /\ task[c].crawl.fin \in {"returned", "raised"}

\* C28: crawl_code_missing processes the ranges of a security one at a time
\* in ascending order: the next range starts only after the crawl of the
\* previous one has succeeded or failed, and a failed range does not keep the
\* later ranges from being processed.
C28_OneRangeAtATime == []C28_Order /\ [][C28_Step]_vars

\* the first of two ranges failed and the second one was ingested after it
C28_Witness ==
    \E c \in Codes :
        /\ IsIngest
        /\ task[c].pc = "done"
        /\ Len(task[c].ranges) = 2
        /\ <<1, 1>> \in task[c].giveups
        /\ task[c].attempted = <<task[c].ranges[2]>>

\* the seconds _cool_sleep(COOLDOWN_SECS) may sleep
CooldownSleeps == {cool_sleep(COOLDOWN_SECS, j) : j \in JitterPermille}

\* every such sleep is at least 1 second and 0.9 to 1.2 times the base
CooldownSleepsBounded ==
    \A sleep_s \in CooldownSleeps :
        /\ sleep_s >= 1
        /\ 10 * sleep_s >= 9 * COOLDOWN_SECS
        /\ 10 * sleep_s <= 12 * COOLDOWN_SECS

\* C30: in fetch_one_to_mysql the n-th failed attempt (n = 1, 2, 3), when
\* not classified as a ban, is followed by a wait of 15 * n seconds; a
\* ban-classified failure is followed by the cooldown: 600 seconds scaled by
\* a jitter of 0.9 to 1.2, and at least 1 second.
C30_BackoffSchedule ==
    \A c \in Codes : \A i \in DOMAIN task[c].errs :
        IsFetch =>
            LET e == task[c].errs[i]
            IN  /\ e.attempt = i
                /\ i \in 1..MaxAttempts
                /\ ~e.ban => e.via = "time.sleep" /\ e.secs = 15 * i
                /\ e.ban =>
                      /\ e.via = "_cool_sleep"
                      /\ e.secs = COOLDOWN_SECS
                      /\ CooldownSleepsBounded

\* a ban-classified failure, then two other failures: waits of 600 (base),
\* 30 and 45 seconds
C30_Witness ==
    \E c \in Codes :
        /\ IsFetch
        /\ Len(task[c].errs) = MaxAttempts
        /\ task[c].errs[1].ban /\ task[c].errs[1].secs = COOLDOWN_SECS
        /\ ~task[c].errs[2].ban /\ task[c].errs[2].secs = 30
        /\ ~task[c].errs[3].ban /\ task[c].errs[3].secs = 45
        /\ task[c].outcome = "gaveup"

\* C22: AsyncKlineIngestor.run returns only after every enqueued code has
\* been processed, and it does return (it does not raise) whenever each
\* crawl terminates, also when the producer enqueues no code.
C22_AsyncRunReturns ==
    driver = "AsyncKlineIngestor.run" =>
        /\ run # "raised"
        /\ run = "returned" => \A c \in Codes : task[c].pc = "done"

\* the remote calls made so far in the run, by all workers
RemoteCalls == UNION {task[c].remote : c \in Codes}

\* C26: every remote call of the provider (daily bars or trading calendar)
\* is preceded by wait_if_needed on one limiter shared by all workers: no
\* call goes through a second limiter, and none is made without a wait.
C26_AllCallsLimited ==
    /\ \A r \in RemoteCalls : r.limiter # "none"
    /\ \A r1, r2 \in RemoteCalls : r1.limiter = r2.limiter

\* get_expected_dates of thread w has returned
CalReturned(w) == cal_call[w].pc \in {"done", "passed"}

\* the days from Monday to Friday of the interval of key k
MonToFri(k) == {d \in k[1]..k[2] : weekday(d) \in 0..4}

\* C21: get_expected_dates returns the provider's open days of the interval
\* when the provider call succeeds with data; without a provider, when the
\* call raises or when it returns no data, it returns exactly the Monday to
\* Friday dates of the interval, and it raises no error.
C21_ProviderOrWeekdays ==
    \A w \in Callers :
        LET c == cal_call[w]
        IN  /\ c.pc \in {"idle", "miss", "done", "passed"}
            /\ CalReturned(w) =>
                  /\ c.how \in {"hit", "data", "raise", "empty", "nopro"}
                  /\ c.how = "data" => c.ret = {d \in c.key[1]..c.key[2] : d \in cal_open}
                  /\ c.how \in {"raise", "empty", "nopro"} => c.ret = MonToFri(c.key)
                  /\ ~finder_pro => c.how \in {"hit", "nopro"}

\* one call got the provider's open days, which are not the weekdays, and
\* another call, of an interval with a weekend, fell back to the weekdays
C21_Witness ==
    \E w1, w2 \in Callers :
        /\ CalReturned(w1) /\ cal_call[w1].how = "data"
        /\ cal_call[w1].ret # MonToFri(cal_call[w1].key)
        /\ CalReturned(w2) /\ cal_call[w2].how = "raise"
        /\ cal_call[w2].ret # cal_call[w2].key[1]..cal_call[w2].key[2]
        /\ cal_call[w2].ret # {}

\* C27: when threads sharing one finder ask for the same interval
\* concurrently, the cache entry of the interval is written at most once and
\* every caller gets the same set of dates, also when the provider succeeds
\* for one caller and fails for another.
C27_CacheWrittenOnce ==
    /\ \A k \in CalKeys : cal_writes[k] <= 1
    /\ \A w1, w2 \in Callers :
          (CalReturned(w1) /\ CalReturned(w2) /\ cal_call[w1].key = cal_call[w2].key) =>
                cal_call[w1].ret = cal_call[w2].ret

\* C32: after every return of wait_if_needed the deque of timestamps is in
\* non-decreasing order, holds at most max_calls entries and no entry older
\* than time_window before the timestamp just recorded (its last entry);
\* one call sleeps at most once.
C32_DequeAfterReturn ==
    /\ \A t \in Threads : slept[t] <= 1
    /\ lockHolder = {} =>
          /\ \A i, j \in DOMAIN calls : i < j => calls[i] <= calls[j]
          /\ Len(calls) <= max_calls
          /\ \A i \in DOMAIN calls : calls[Len(calls)] - calls[i] <= time_window

\* a caller slept and returned: the deque is full again, with an entry kept
\* from before the sleep and the caller's own timestamp last
C32_Witness ==
    /\ lockHolder = {}
    /\ max_calls >= 2
    /\ Len(calls) = max_calls
    /\ calls[1] < calls[Len(calls)]
    /\ \E t \in Threads : slept[t] = 1 /\ tpc[t] = "idle" /\ calls[Len(calls)] >= wakeAt[t]
                            /\ calls[1] < wakeAt[t]

\* C31: when the provider returns a bar for every requested date of every
\* range and every upsert commits, then after one crawl_code_missing pass
\* for a security and interval, find_missing_dates for that security and
\* interval is empty, so that a second pass has no range to fetch.
C31_NothingMissingAfterPass ==
    \A w \in Callers :
        cal_call[w].pc = "passed" =>
            LET k == cal_call[w].key
            IN  /\ k \in DOMAIN cal_cache
                /\ find_missing_dates(cal_cache[k],
                        {d \in cal_stored[w] : d >= k[1] /\ d <= k[2]}) = <<>>

\* C33: once get_expected_dates has returned for a key, every later call
\* with that key on the same finder is answered from the cache, without a
\* provider call, with the identical set (also when the first result was
\* the weekday fallback, and whatever the exchange argument is: the key
\* holds start and end only).
C33_LaterCallsSame ==
    [][\A w, w0 \in Callers :
          ( /\ cal_n' = cal_n + 1
            /\ cal_call'[w] # cal_call[w]
            /\ CalReturned(w0)
            /\ cal_call[w0].key = cal_call'[w].key ) =>
                /\ cal_call'[w].how = "hit"
                /\ cal_call'[w].ret = cal_call[w0].ret]_vars

\* C35: in fetch_one_to_mysql every failed attempt, the 3rd and last one
\* included, is followed by its backoff or cooldown sleep before the
\* function gives up: the sleeps are as many as the failed attempts, and
\* there are never more than 3 attempts or 3 sleeps; when the 3rd sleep has
\* ended the function has returned.
C35_SleepAfterEveryFailure ==
    \A c \in Codes :
        IsFetch =>
            LET t == task[c]
                sleeping == t.pc \in {"backoff", "cooldown"}
            IN  /\ t.attempt <= 3
                /\ Len(t.errs) <= 3
                /\ t.sleeps = IF sleeping THEN Len(t.errs) - 1 ELSE Len(t.errs)
                /\ \A i \in DOMAIN t.errs : t.errs[i].via \in {"time.sleep", "_cool_sleep"}
                /\ t.outcome = "gaveup" => Len(t.errs) = 3 /\ t.sleeps = 3
                /\ t.sleeps = 3 => t.pc = "done" /\ t.outcome = "gaveup"

\* a worker gave up after three failures and three sleeps, the last one the
\* cooldown of a ban-classified failure
C35_Witness ==
    \E c \in Codes :
        /\ IsFetch
        /\ task[c].outcome = "gaveup"
        /\ task[c].sleeps = 3
        /\ task[c].errs[3].via = "_cool_sleep"
        /\ task[c].errs[1].via = "time.sleep"

\* the rows of batch are upserted into before, giving after: a row whose key
\* is not in the batch is stored after exactly when it was stored before,
\* and every key of the batch holds the values of its last row in the batch
Applied(before, after, batch) ==
    LET inBatch(x) == \E i \in DOMAIN batch : SameKey(x, batch[i])
    IN  /\ \A x \in before : ~inBatch(x) => x \in after
        /\ \A x \in after : IF inBatch(x) THEN x = LastFor(batch, x) ELSE x \in before
        /\ \A i \in DOMAIN batch : \E x \in after : SameKey(x, batch[i])

\* C36: a bulk_upsert changes no stored bar of a security that has no row
\* in the call and no bar whose (code, date) is absent from it; when a batch
\* fails, its rows are rolled back: the store is as the batches committed
\* before it left it, so a call whose rows make one batch and that fails
\* leaves the store, with the rows of earlier calls, unchanged.
C36_UpsertFrame ==
    sLast.oks # <<>> =>
        /\ \A x \in sLast.before \cup stock_data :
              (\A i \in DOMAIN sLast.rows : sLast.rows[i].code # x.code) =>
                  (x \in sLast.before /\ x \in stock_data)
        /\ LastOk => Applied(sLast.before, stock_data, sLast.rows)
        /\ ~LastOk =>
              /\ \E n \in 0..(Len(sLast.rows) - 1) :
                    /\ n % sLast.bs = 0
                    /\ Applied(sLast.before, stock_data, SeqTake(sLast.rows, n))
              /\ sLast.bs >= Len(sLast.rows) => stock_data = sLast.before

\* a call updated one bar of a security and left its other bar and a bar of
\* the other security alone; the next call, of one batch, failed and left
\* the store as it was
C36_Witness ==
    /\ sLast.oks = <<TRUE, FALSE>>
    /\ sLast.bs >= Len(sLast.rows)
    /\ Len(sLast.rows) = 2
    /\ stock_data = sLast.before
    /\ \E x, y, z \in stock_data :
          /\ x = sLast.rows[1] /\ x.val = 2
          /\ y.code = x.code /\ y.date # x.date /\ y.val = 1
          /\ z.code # x.code /\ z.val = 1

\* a crawl of code c is under way: its consumer is neither waiting on the
\* queue nor done with the code
Crawling(c) == task[c].pc \notin {"queued", "done"}

====
